---- MODULE Spec2Model ----
(***************************************************************************)
(* A model of advanced-vector/vector.h: RawMemory<T> (an owned block of    *)
(* raw slots) and Vector<T> (a size on top of one RawMemory).              *)
(*                                                                         *)
(* The heap is a map from addresses to blocks of slots.  A slot is Uninit  *)
(* or holds an element value; Moved is the value a moved-from element has  *)
(* when T's move leaves its source in a distinguishable state.  Every      *)
(* element operation that may throw (operator new, constructors, copy and  *)
(* move assignment) counts down `k`; the operation that finds k = 1 throws.*)
(* Operations are pure operators over a machine record                     *)
(*     m = [heap, k, thrown, err]                                          *)
(* and the actions apply them to the vectors "A" and "B".  RawMemory        *)
(* objects that stand alone (no Vector around them) are the objects "P"    *)
(* and "Q" of `raw`; `relocated` counts the elements a run of appends has  *)
(* carried from an old block to a new one.                                 *)
(***************************************************************************)
EXTENDS Integers, Sequences, FiniteSets, TLC

VARIABLES T, vec, heap, last, raw, relocated

vars == <<T, vec, heap, last, raw, relocated>>

\* ------------------------------------------------------------------ bounds
\* largest capacity one vector may reach, and largest Reserve/Resize argument
MaxCap == 4
\* largest sum of the capacities of the two vectors while both exist
MaxTotal == 3
\* number of heap addresses
MaxAddr == 3
\* longest run of appends to an empty vector
MaxAppend == 9
\* the throwing step is drawn from 0..MaxFail (0: nothing throws)
MaxFail == 4

\* ------------------------------------------------------------- the domain
Vectors == {"A", "B"}

Addr == 1..MaxAddr

\* T* buffer_ = nullptr
nullptr == 0

\* a slot of raw memory in which no object lives
Uninit == "u"

\* the value of a value-initialized T: T()
Default == "d"

\* the state of an element that was moved from
Moved == "m"

\* the values a caller passes in
Values == {"d", "x"}

\* The element types.  moveIsCopy: a move leaves its source unchanged;
\* nothrowMove: std::is_nothrow_move_constructible_v<T> (and move assignment
\* does not throw either); copyable: std::is_copy_constructible_v<T>.
Types ==
    { [moveIsCopy |-> TRUE,  nothrowMove |-> TRUE,  copyable |-> TRUE],
      [moveIsCopy |-> FALSE, nothrowMove |-> TRUE,  copyable |-> TRUE],
      [moveIsCopy |-> FALSE, nothrowMove |-> FALSE, copyable |-> TRUE],
      [moveIsCopy |-> FALSE, nothrowMove |-> FALSE, copyable |-> FALSE] }

\* if constexpr (std::is_nothrow_move_constructible_v<T> || !std::is_copy_constructible_v<T>)
UsesMove == T.nothrowMove \/ ~T.copyable

\* ------------------------------------------------------------ the machine
FreeBlock == [alloc |-> FALSE, slots |-> <<>>]

\* carried: the elements constructed in one block from those of another;
\* site: the handler (catch block) an exception went through
Machine(h, k) ==
    [heap |-> h, k |-> k, thrown |-> FALSE, err |-> {}, carried |-> 0, site |-> "none"]

\* one step that may throw: it throws when the countdown stands at 1
Tick(m) ==
    IF m.k = 1 THEN [m EXCEPT !.k = 0, !.thrown = TRUE]
    ELSE IF m.k > 1 THEN [m EXCEPT !.k = m.k - 1]
    ELSE m

\* a step that throws only when `can` holds
TickIf(m, can) == IF can THEN Tick(m) ELSE m

\* buffer_[index]
ReadSlot(m, a, i) == m.heap[a].slots[i + 1]

WriteSlot(m, a, i, x) == [m EXCEPT !.heap[a].slots[i + 1] = x]

\* one more element was constructed from an element of another block
Carry(m) == [m EXCEPT !.carried = m.carried + 1]

\* what a move leaves in its source
AfterMove(x) == IF T.moveIsCopy THEN x ELSE Moved

\* new (p) T(...): `can` tells whether this constructor may throw
ConstructAt(m, a, i, x, can) ==
    LET t == TickIf(m, can)
    IN  IF t.thrown THEN t ELSE WriteSlot(t, a, i, x)

\* std::destroy_at: destroying a slot that holds no object is recorded
DestroyAt(m, a, i) ==
    LET e == IF ReadSlot(m, a, i) = Uninit THEN {"destroy_uninit"} ELSE {}
    IN  [WriteSlot(m, a, i, Uninit) EXCEPT !.err = m.err \cup e]

RECURSIVE DestroyN(_, _, _, _)
\* std::destroy_n(p + off, n)
DestroyN(m, a, off, n) ==
    IF n <= 0 THEN m
    ELSE DestroyN(DestroyAt(m, a, off), a, off + 1, n - 1)

RECURSIVE UninitCopyFrom(_, _, _, _, _, _, _)
UninitCopyFrom(m, sa, so, n, da, do, j) ==
    IF j >= n THEN m
    ELSE LET t == Tick(m)
         IN  IF t.thrown THEN DestroyN(t, da, do, j)
             ELSE UninitCopyFrom(Carry(WriteSlot(t, da, do + j, ReadSlot(t, sa, so + j))),
                                 sa, so, n, da, do, j + 1)

\* std::uninitialized_copy_n(src + so, n, dst + do): copy-constructs, and
\* destroys what it constructed when a copy throws
UninitializedCopyN(m, sa, so, n, da, do) == UninitCopyFrom(m, sa, so, n, da, do, 0)

RECURSIVE UninitMoveFrom(_, _, _, _, _, _, _)
UninitMoveFrom(m, sa, so, n, da, do, j) ==
    IF j >= n THEN m
    ELSE LET t == TickIf(m, ~T.nothrowMove)
         IN  IF t.thrown THEN DestroyN(t, da, do, j)
             ELSE LET x == ReadSlot(t, sa, so + j)
                      w == WriteSlot(t, da, do + j, x)
                  IN  UninitMoveFrom(Carry(WriteSlot(w, sa, so + j, AfterMove(x))),
                                     sa, so, n, da, do, j + 1)

\* std::uninitialized_move_n(src + so, n, dst + do)
UninitializedMoveN(m, sa, so, n, da, do) == UninitMoveFrom(m, sa, so, n, da, do, 0)

RECURSIVE UninitValueFrom(_, _, _, _, _)
UninitValueFrom(m, a, off, n, j) ==
    IF j >= n THEN m
    ELSE LET t == Tick(m)
         IN  IF t.thrown THEN DestroyN(t, a, off, j)
             ELSE UninitValueFrom(WriteSlot(t, a, off + j, Default), a, off, n, j + 1)

\* std::uninitialized_value_construct_n(p + off, n)
UninitializedValueConstructN(m, a, off, n) == UninitValueFrom(m, a, off, n, 0)

RECURSIVE StdCopy(_, _, _, _, _)
\* std::copy(src, src + n, dst): copy assignment, front to back
StdCopy(m, sa, n, da, j) ==
    IF j >= n THEN m
    ELSE LET t == Tick(m)
         IN  IF t.thrown THEN t
             ELSE StdCopy(WriteSlot(t, da, j, ReadSlot(t, sa, j)), sa, n, da, j + 1)

\* *dst = std::move(*src) inside one block
MoveAssign(m, a, src, dst) ==
    LET x == ReadSlot(m, a, src)
    IN  WriteSlot(WriteSlot(m, a, dst, x), a, src, AfterMove(x))

RECURSIVE StdMove(_, _, _, _, _)
\* std::move(p + first, p + lst, p + dfirst): move assignment, front to back
StdMove(m, a, first, lst, dfirst) ==
    IF first >= lst THEN m
    ELSE LET t == TickIf(m, ~T.nothrowMove)
         IN  IF t.thrown THEN t
             ELSE StdMove(MoveAssign(t, a, first, dfirst), a, first + 1, lst, dfirst + 1)

RECURSIVE StdMoveBackward(_, _, _, _, _)
\* std::move_backward(p + first, p + lst, p + dlast): move assignment, back to front
StdMoveBackward(m, a, first, lst, dlast) ==
    IF first >= lst THEN m
    ELSE LET t == TickIf(m, ~T.nothrowMove)
         IN  IF t.thrown THEN t
             ELSE StdMoveBackward(MoveAssign(t, a, lst - 1, dlast - 1),
                                  a, first, lst - 1, dlast - 1)

\* --------------------------------------------------------------- RawMemory
FreeAddrs(m) == {a \in Addr : ~m.heap[a].alloc}

\* the address operator new hands out: the lowest one that is free
LowestFree(m) == CHOOSE a \in FreeAddrs(m) : \A b \in FreeAddrs(m) : a <= b

\* RawMemory::Allocate: nullptr for n = 0, else operator new(n * sizeof(T)),
\* which throws std::bad_alloc when it fails or no address is left
Allocate(m, n) ==
    IF n = 0 THEN [m |-> m, p |-> nullptr]
    ELSE LET t == Tick(m)
         IN  IF t.thrown THEN [m |-> t, p |-> nullptr]
             ELSE IF FreeAddrs(t) = {}
                  THEN [m |-> [t EXCEPT !.thrown = TRUE, !.k = 0], p |-> nullptr]
                  ELSE LET a == LowestFree(t)
                           blk == [alloc |-> TRUE, slots |-> [j \in 1..n |-> Uninit]]
                       IN  [m |-> [t EXCEPT !.heap[a] = blk], p |-> a]

\* RawMemory::Deallocate: operator delete(buf), a no-op on nullptr; releasing
\* a block twice, or one that still holds objects, is recorded
Deallocate(m, p) ==
    IF p = nullptr THEN m
    ELSE LET blk == m.heap[p]
             e1 == IF ~blk.alloc THEN {"double_free"} ELSE {}
             e2 == IF \E j \in 1..Len(blk.slots) : blk.slots[j] # Uninit
                   THEN {"free_live"} ELSE {}
         IN  [m EXCEPT !.heap[p] = FreeBlock, !.err = m.err \cup e1 \cup e2]

\* RawMemory() = default
EmptyRawMemory == [buffer |-> nullptr, capacity |-> 0]

\* RawMemory(size_t capacity)
RawMemoryCtor(m, n) ==
    LET r == Allocate(m, n)
    IN  [m |-> r.m, rm |-> [buffer |-> r.p, capacity |-> n]]

\* ~RawMemory()
RawMemoryDtor(m, rm) == Deallocate(m, rm.buffer)

\* RawMemory(RawMemory&& other) noexcept: <<this, other>> after it
RawMemoryMove(other) ==
    <<[buffer |-> other.buffer, capacity |-> other.capacity], EmptyRawMemory>>

\* RawMemory::Swap: <<this, other>> after the exchange
RawMemorySwap(this, other) ==
    <<[buffer |-> other.buffer, capacity |-> other.capacity],
      [buffer |-> this.buffer, capacity |-> this.capacity]>>

\* RawMemory::operator=(RawMemory&& rhs) with this != &rhs:
\*     buffer_.~RawMemory(); capacity_ = 0; Swap(rhs);
\* The first statement names the destructor of RawMemory on the pointer
\* buffer_ and is rejected when the function is instantiated.  Its two
\* readings are kept: it releases the block as ~RawMemory does (releases), or
\* it is the destructor of a pointer and does nothing.  In both buffer_ keeps
\* its value, capacity_ becomes 0, and Swap hands both to rhs.
RawMemoryMoveAssign(m, this, rhs, releases) ==
    LET m1 == IF releases THEN RawMemoryDtor(m, this) ELSE m
        s == RawMemorySwap([this EXCEPT !.capacity = 0], rhs)
    IN  [m |-> m1, this |-> s[1], rhs |-> s[2]]

\* ------------------------------------------------------------------ Vector
\* the RawMemory objects that stand alone
RawObjects == {"P", "Q"}

\* raw[r]: whether the object r exists, and its members buffer_ and capacity_
RawObject(alive, rm) == [alive |-> alive, buffer |-> rm.buffer, capacity |-> rm.capacity]

NoRawObject == RawObject(FALSE, EmptyRawMemory)

\* a Vector object: RawMemory<T> data_; size_t size_
EmptyVector == [data |-> EmptyRawMemory, size |-> 0]

\* an iterator: an address and an offset in that block
Iter(a, off) == [a |-> a, off |-> off]

NoIter == Iter(nullptr, 0)

\* what an operation hands back: the machine, the vector and the iterator
Res(m, v, ret) == [m |-> m, v |-> v, ret |-> ret]

\* Vector::Capacity
Capacity(v) == v.data.capacity

\* a Swap that takes the members of other and leaves other as it was
VectorSwapTakesOnly(this, other) == <<other, other>>

\* Vector::Swap: <<this, other>> after the exchange
VectorSwap(this, other) ==
    LET d == RawMemorySwap(this.data, other.data)
    IN  <<[data |-> d[1], size |-> other.size], [data |-> d[2], size |-> this.size]>>

\* Vector::~Vector, then the destructor of the member data_
VectorDtor(m, v) == RawMemoryDtor(DestroyN(m, v.data.buffer, 0, v.size), v.data)

\* Vector::Vector(size_t size); a constructor that throws releases data_
VectorSized(m, n) ==
    LET r == RawMemoryCtor(m, n)
    IN  IF r.m.thrown THEN Res(r.m, EmptyVector, NoIter)
        ELSE LET m2 == UninitializedValueConstructN(r.m, r.rm.buffer, 0, n)
             IN  IF m2.thrown THEN Res(RawMemoryDtor(m2, r.rm), EmptyVector, NoIter)
                 ELSE Res(m2, [data |-> r.rm, size |-> n], NoIter)

\* a copy constructor that copies the members: both vectors point at one block
VectorCopyShallow(m, other) == Res(m, [data |-> other.data, size |-> other.size], NoIter)

\* Vector::Vector(const Vector& other)
VectorCopy(m, other) ==
    LET r == RawMemoryCtor(m, other.size)
    IN  IF r.m.thrown THEN Res(r.m, EmptyVector, NoIter)
        ELSE LET m2 == UninitializedCopyN(r.m, other.data.buffer, 0, other.size,
                                          r.rm.buffer, 0)
             IN  IF m2.thrown THEN Res(RawMemoryDtor(m2, r.rm), EmptyVector, NoIter)
                 ELSE Res(m2, [data |-> r.rm, size |-> other.size], NoIter)

\* a copy assignment that destroys its own elements before it builds the copy
CopyAssignReallocClearsFirst(m, this, rhs) ==
    LET m0 == DestroyN(m, this.data.buffer, 0, this.size)
        e == [this EXCEPT !.size = 0]
        c == VectorCopy(m0, rhs)
    IN  IF c.m.thrown THEN Res(c.m, e, NoIter)
        ELSE LET s == VectorSwap(e, c.v)
             IN  Res(VectorDtor(c.m, s[2]), s[1], NoIter)

\* copy assignment, rhs.size_ > data_.Capacity(): Vector rhs_copy(rhs); Swap(rhs_copy)
CopyAssignRealloc(m, this, rhs) ==
    LET c == VectorCopy(m, rhs)
    IN  IF c.m.thrown THEN Res(c.m, this, NoIter)
        ELSE LET s == VectorSwap(this, c.v)
             IN  Res(VectorDtor(c.m, s[2]), s[1], NoIter)

\* a shrinking copy assignment that forgets std::destroy_n
CopyAssignShrinkKeepsExcess(m, this, rhs) ==
    LET m1 == StdCopy(m, rhs.data.buffer, rhs.size, this.data.buffer, 0)
    IN  IF m1.thrown THEN Res(m1, this, NoIter)
        ELSE Res(m1, [this EXCEPT !.size = rhs.size], NoIter)

\* copy assignment, rhs.size_ < size_: copy the prefix, destroy the excess
CopyAssignShrink(m, this, rhs) ==
    LET m1 == StdCopy(m, rhs.data.buffer, rhs.size, this.data.buffer, 0)
    IN  IF m1.thrown THEN Res(m1, this, NoIter)
        ELSE Res(DestroyN(m1, this.data.buffer, rhs.size, this.size - rhs.size),
                 [this EXCEPT !.size = rhs.size], NoIter)

\* copy assignment, size_ <= rhs.size_ <= capacity: copy the prefix, construct the tail
CopyAssignExtend(m, this, rhs) ==
    LET m1 == StdCopy(m, rhs.data.buffer, this.size, this.data.buffer, 0)
    IN  IF m1.thrown THEN Res(m1, this, NoIter)
        ELSE LET m2 == UninitializedCopyN(m1, rhs.data.buffer, this.size,
                                          rhs.size - this.size,
                                          this.data.buffer, this.size)
             IN  IF m2.thrown THEN Res(m2, this, NoIter)
                 ELSE Res(m2, [this EXCEPT !.size = rhs.size], NoIter)

\* a copy assignment that always copies and swaps
CopyAssignAlwaysSwaps(m, this, rhs, same) ==
    IF same THEN Res(m, this, NoIter) ELSE CopyAssignRealloc(m, this, rhs)

\* Vector::operator=(const Vector& rhs); `same` is this == &rhs
CopyAssign(m, this, rhs, same) ==
    IF same THEN Res(m, this, NoIter)
    ELSE IF rhs.size > Capacity(this) THEN CopyAssignRealloc(m, this, rhs)
    ELSE IF rhs.size < this.size THEN CopyAssignShrink(m, this, rhs)
    ELSE CopyAssignExtend(m, this, rhs)

\* a PopBack that lowers the size and destroys nothing
PopBackKeepsElement(m, v) ==
    IF v.size > 0 THEN Res(m, [v EXCEPT !.size = v.size - 1], NoIter)
    ELSE Res(m, v, NoIter)

\* a PopBack without the test size_ > 0
PopBackUnchecked(m, v) ==
    IF v.size > 0
    THEN Res(DestroyAt(m, v.data.buffer, v.size - 1), [v EXCEPT !.size = v.size - 1], NoIter)
    ELSE Res(m, [v EXCEPT !.size = v.size - 1], NoIter)

\* Vector::PopBack
PopBack(m, v) ==
    IF v.size > 0
    THEN Res(DestroyAt(m, v.data.buffer, v.size - 1), [v EXCEPT !.size = v.size - 1], NoIter)
    ELSE Res(m, v, NoIter)

\* an Erase that forgets to shift: it removes the last element
EraseLast(m, v, shift) ==
    LET p == PopBack(m, v)
    IN  Res(p.m, p.v, Iter(p.v.data.buffer, shift))

\* Vector::Erase
Erase(m, v, shift) ==
    LET m1 == StdMove(m, v.data.buffer, shift + 1, v.size, shift)
    IN  IF m1.thrown THEN Res(m1, v, NoIter)
        ELSE LET p == PopBack(m1, v)
             IN  Res(p.m, p.v, Iter(p.v.data.buffer, shift))

\* Vector::CreateCopy: the new block, with the elements moved or copied into it
CreateCopy(m, v, capacity) ==
    LET r == RawMemoryCtor(m, capacity)
    IN  IF r.m.thrown THEN r
        ELSE LET m2 == IF UsesMove
                       THEN UninitializedMoveN(r.m, v.data.buffer, 0, v.size, r.rm.buffer, 0)
                       ELSE UninitializedCopyN(r.m, v.data.buffer, 0, v.size, r.rm.buffer, 0)
             IN  IF m2.thrown THEN [m |-> RawMemoryDtor(m2, r.rm), rm |-> EmptyRawMemory]
                 ELSE [m |-> m2, rm |-> r.rm]

\* a Reserve that releases the old block without destroying its elements
ReserveKeepsOldElements(m, v, capacity) ==
    IF capacity <= Capacity(v) THEN Res(m, v, NoIter)
    ELSE LET c == CreateCopy(m, v, capacity)
         IN  IF c.m.thrown THEN Res(c.m, v, NoIter)
             ELSE LET s == RawMemorySwap(v.data, c.rm)
                  IN  Res(RawMemoryDtor(c.m, s[2]), [v EXCEPT !.data = s[1]], NoIter)

\* Vector::Reserve
Reserve(m, v, capacity) ==
    IF capacity <= Capacity(v) THEN Res(m, v, NoIter)
    ELSE LET c == CreateCopy(m, v, capacity)
         IN  IF c.m.thrown THEN Res(c.m, v, NoIter)
             ELSE LET s == RawMemorySwap(v.data, c.rm)
                      m2 == DestroyN(c.m, s[2].buffer, 0, v.size)
                  IN  Res(RawMemoryDtor(m2, s[2]), [v EXCEPT !.data = s[1]], NoIter)

\* a Resize that shrinks the size without destroying the tail
ResizeKeepsTail(m, v, count) ==
    IF count > v.size
    THEN LET r == Reserve(m, v, count)
         IN  IF r.m.thrown THEN r
             ELSE LET m2 == UninitializedValueConstructN(r.m, r.v.data.buffer, v.size,
                                                         count - v.size)
                  IN  IF m2.thrown THEN Res(m2, r.v, NoIter)
                      ELSE Res(m2, [r.v EXCEPT !.size = count], NoIter)
    ELSE Res(m, [v EXCEPT !.size = count], NoIter)

\* Vector::Resize
Resize(m, v, count) ==
    IF count > v.size
    THEN LET r == Reserve(m, v, count)
         IN  IF r.m.thrown THEN r
             ELSE LET m2 == UninitializedValueConstructN(r.m, r.v.data.buffer, v.size,
                                                         count - v.size)
                  IN  IF m2.thrown THEN Res(m2, r.v, NoIter)
                      ELSE Res(m2, [r.v EXCEPT !.size = count], NoIter)
    ELSE Res(DestroyN(m, v.data.buffer, count, v.size - count),
             [v EXCEPT !.size = count], NoIter)

\* a growth by one slot
GrowthByOne(size) == size + 1

\* size_ == 0 ? 1 : size_ * 2
GrowthCapacity(size) == IF size = 0 THEN 1 ELSE size * 2

\* a relocation that moves whatever T is
EmplaceRelocateByMove(m, v, shift, da) ==
    LET m1 == UninitializedMoveN(m, v.data.buffer, 0, shift, da, 0)
    IN  IF m1.thrown THEN m1
        ELSE UninitializedMoveN(m1, v.data.buffer, shift, v.size - shift, da, shift + 1)

\* the relocation of the prefix and of the suffix around the new element
EmplaceRelocate(m, v, shift, da) ==
    IF UsesMove
    THEN LET m1 == UninitializedMoveN(m, v.data.buffer, 0, shift, da, 0)
         IN  IF m1.thrown THEN m1
             ELSE UninitializedMoveN(m1, v.data.buffer, shift, v.size - shift, da, shift + 1)
    ELSE LET m1 == UninitializedCopyN(m, v.data.buffer, 0, shift, da, 0)
             m2 == IF m1.thrown THEN m1
                   ELSE UninitializedCopyN(m1, v.data.buffer, shift, v.size - shift,
                                           da, shift + 1)
         IN  IF m2.thrown THEN DestroyN(m2, da, shift, 1) ELSE m2

\* Vector::Emplace, size_ == Capacity(): a new block of GrowthCapacity slots
EmplaceRealloc(m, v, shift, x, can) ==
    LET r == RawMemoryCtor(m, GrowthCapacity(v.size))
    IN  IF r.m.thrown THEN Res(r.m, v, NoIter)
        ELSE LET m1 == ConstructAt(r.m, r.rm.buffer, shift, x, can)
             IN  IF m1.thrown THEN Res(RawMemoryDtor(m1, r.rm), v, NoIter)
                 ELSE LET m2 == EmplaceRelocate(m1, v, shift, r.rm.buffer)
                      IN  IF m2.thrown THEN Res(RawMemoryDtor(m2, r.rm), v, NoIter)
                          ELSE LET m3 == DestroyN(m2, v.data.buffer, 0, v.size)
                                   s == RawMemorySwap(v.data, r.rm)
                               IN  Res(RawMemoryDtor(m3, s[2]),
                                       [data |-> s[1], size |-> v.size + 1],
                                       Iter(s[1].buffer, shift))

\* an in-place shift whose handler leaves the tail slot as it is
EmplaceShiftKeepsTail(m, v, shift) ==
    LET a == v.data.buffer
        t == TickIf(m, ~T.nothrowMove)
    IN  IF t.thrown THEN t
        ELSE LET x == ReadSlot(t, a, v.size - 1)
                 m1 == WriteSlot(WriteSlot(t, a, v.size, x), a, v.size - 1, AfterMove(x))
                 m2 == StdMoveBackward(m1, a, shift, v.size, v.size + 1)
             IN  IF m2.thrown THEN [m2 EXCEPT !.site = "move_backward"]
                 ELSE DestroyAt(m2, a, shift)

\* the in-place shift of Vector::Emplace (size_ != 0): the last element is
\* move-constructed into slot size_, [shift, size_) is moved one slot up with
\* std::move_backward(begin() + shift, end(), end() + 1), and slot shift is destroyed
EmplaceShift(m, v, shift) ==
    LET a == v.data.buffer
        t == TickIf(m, ~T.nothrowMove)
    IN  IF t.thrown THEN t
        ELSE LET x == ReadSlot(t, a, v.size - 1)
                 m1 == WriteSlot(WriteSlot(t, a, v.size, x), a, v.size - 1, AfterMove(x))
                 m2 == StdMoveBackward(m1, a, shift, v.size, v.size + 1)
             IN  IF m2.thrown
                 THEN [DestroyN(m2, a, v.size, 1) EXCEPT !.site = "move_backward"]
                 ELSE DestroyAt(m2, a, shift)

\* Vector::Emplace, size_ < Capacity()
EmplaceInPlace(m, v, shift, x, can) ==
    LET m1 == IF v.size # 0 THEN EmplaceShift(m, v, shift) ELSE m
    IN  IF m1.thrown THEN Res(m1, v, NoIter)
        ELSE LET m2 == ConstructAt(m1, v.data.buffer, shift, x, can)
             IN  IF m2.thrown THEN Res(m2, v, NoIter)
                 ELSE Res(m2, [v EXCEPT !.size = v.size + 1], Iter(v.data.buffer, shift))

\* an Emplace that always takes the reallocating path
EmplaceAlwaysReallocates(m, v, shift, x, can) == EmplaceRealloc(m, v, shift, x, can)

\* Vector::Emplace(pos, args...): shift = pos - begin(); `can` tells whether
\* T(args...) may throw
Emplace(m, v, shift, x, can) ==
    IF v.size = Capacity(v) THEN EmplaceRealloc(m, v, shift, x, can)
    ELSE EmplaceInPlace(m, v, shift, x, can)

\* ---------------------------------------------------------------- the state
\* vec[v]: whether the object v exists, and its members data_ and size_
Object(alive, v) == [alive |-> alive, data |-> v.data, size |-> v.size]

NoObject == Object(FALSE, EmptyVector)

\* the members of the object v
Members(v) == [data |-> vec[v].data, size |-> vec[v].size]

\* the slots of the block at address a (none at nullptr)
SlotsAt(h, a) == IF a = nullptr THEN <<>> ELSE h[a].slots

\* what a caller can observe of a vector: whether it exists, size, capacity,
\* begin() and *begin() .. *(end() - 1)
ViewOf(o, h) ==
    [alive |-> o.alive, size |-> o.size, capacity |-> o.data.capacity,
     buffer |-> o.data.buffer,
     elems |-> [j \in 1..o.size |-> SlotsAt(h, o.data.buffer)[j]]]

\* slots [0, size) hold objects and slots [size, capacity) hold none
Consistent(o, h) ==
    LET s == SlotsAt(h, o.data.buffer)
    IN  /\ o.size <= Len(s)
        /\ o.data.capacity = Len(s)
        /\ \A j \in 1..Len(s) : (s[j] # Uninit) <=> (j <= o.size)

\* no call is under way
Idle == last.op = "none"

\* no call is under way, the object v exists and may be used: an operation on
\* a vector whose slots are not in that shape reads or destroys a slot that
\* holds no object
Usable(v) == Idle /\ vec[v].alive /\ Consistent(vec[v], heap)

\* no call is under way and the object v does not exist
Absent(v) == Idle /\ ~vec[v].alive

SumCap(vc) == vc["A"].data.capacity + vc["B"].data.capacity

\* the bounds of the model
Bounded(vc) ==
    /\ \A v \in Vectors : vc[v].data.capacity <= MaxCap
    /\ vc["B"].alive => SumCap(vc) <= MaxTotal

\* the record of a call: the operation, its object, its arguments, whether it
\* threw, what it returned, the lifetime errors it made, and what the vectors
\* looked like when it was called
Call(op, v, w, i, x, m, ret) ==
    [op |-> op, v |-> v, w |-> w, i |-> i, x |-> x, thrown |-> m.thrown, ret |-> ret,
     err |-> m.err, site |-> m.site, pre |-> [u \in Vectors |-> ViewOf(vec[u], heap)]]

\* the operation op on v ended with r; the throwing step that was drawn is one
\* the operation has (a countdown that outlasts the call is the call with k = 0)
Finish(op, v, w, i, x, r, alive) ==
    /\ r.m.k = 0
    /\ vec' = [vec EXCEPT ![v] = Object(alive, r.v)]
    /\ Bounded(vec')
    /\ heap' = r.m.heap
    /\ last' = Call(op, v, w, i, x, r.m, r.ret)
    /\ UNCHANGED <<T, raw, relocated>>

\* the operation op exchanged v and w (s = <<v, w>> after it)
FinishBoth(op, v, w, s) ==
    /\ vec' = [vec EXCEPT ![v] = Object(TRUE, s[1]), ![w] = Object(TRUE, s[2])]
    /\ Bounded(vec')
    /\ heap' = heap
    /\ last' = Call(op, v, w, 0, Default, Machine(heap, 0), NoIter)
    /\ UNCHANGED <<T, raw, relocated>>

EmptyHeap == [a \in Addr |-> FreeBlock]

NoView == ViewOf(NoObject, EmptyHeap)

NoCall ==
    [op |-> "none", v |-> "A", w |-> "A", i |-> 0, x |-> Default, thrown |-> FALSE,
     ret |-> NoIter, err |-> {}, site |-> "none", pre |-> [u \in Vectors |-> NoView]]

\* Vector<T> A; and B not yet constructed
Init ==
    /\ T \in Types
    /\ vec = [v \in Vectors |-> IF v = "A" THEN Object(TRUE, EmptyVector) ELSE NoObject]
    /\ heap = EmptyHeap
    /\ last = NoCall
    /\ raw = [r \in RawObjects |-> NoRawObject]
    /\ relocated = 0

\* ------------------------------------------------------------- the actions
\* the steps at which a call may be made to throw
Fail == 0..MaxFail

\* Vector() = default
CallVector(v) ==
    /\ Absent(v)
    /\ Finish("Vector", v, v, 0, Default, Res(Machine(heap, 0), EmptyVector, NoIter), TRUE)

\* Vector(size_t size); the object exists only if the constructor returns
CallVectorSized(v) ==
    /\ Absent(v)
    /\ \E n \in 0..MaxCap, k \in Fail :
          LET r == VectorSized(Machine(heap, k), n)
          IN  Finish("VectorSized", v, v, n, Default, r, ~r.m.thrown)

\* Vector(const Vector& other)
CallVectorCopy(v, w) ==
    /\ Absent(v) /\ Usable(w) /\ T.copyable
    /\ \E k \in Fail :
          LET r == VectorCopy(Machine(heap, k), Members(w))
          IN  Finish("VectorCopy", v, w, 0, Default, r, ~r.m.thrown)

\* Vector(Vector&& other) noexcept: Swap(other) on a default-initialized object
CallVectorMove(v, w) ==
    /\ Absent(v) /\ Usable(w)
    /\ FinishBoth("VectorMove", v, w, VectorSwap(EmptyVector, Members(w)))

\* operator=(const Vector& rhs)
CallCopyAssign(v, w) ==
    /\ Usable(v) /\ Usable(w) /\ T.copyable
    /\ \E k \in Fail :
          Finish("CopyAssign", v, w, 0, Default,
                 CopyAssign(Machine(heap, k), Members(v), Members(w), v = w), TRUE)

\* operator=(Vector&& rhs) noexcept: if (this != &rhs) Swap(rhs)
CallMoveAssign(v, w) ==
    /\ Usable(v) /\ Usable(w)
    /\ FinishBoth("MoveAssign", v, w,
                  IF v # w THEN VectorSwap(Members(v), Members(w))
                  ELSE <<Members(v), Members(w)>>)

\* Vector::Swap(Vector& other) noexcept
CallSwap(v, w) ==
    /\ Usable(v) /\ Usable(w)
    /\ FinishBoth("Swap", v, w, VectorSwap(Members(v), Members(w)))

\* ~Vector()
CallDestroy(v) ==
    /\ Usable(v)
    /\ Finish("Destroy", v, v, 0, Default,
              Res(VectorDtor(Machine(heap, 0), Members(v)), EmptyVector, NoIter), FALSE)

\* the calls that run Emplace
EmplaceOps == {"Emplace", "EmplaceBack"}

\* Emplace(begin() + i, args...), called directly or as Insert(begin() + i, value),
\* which is Emplace(pos, value).  The construction of the new element (from
\* arguments, by copy or by a move) may throw.
CallEmplace(v) ==
    /\ Usable(v)
    /\ \E i \in 0..vec[v].size, x \in Values, k \in Fail :
          Finish("Emplace", v, v, i, x,
                 Emplace(Machine(heap, k), Members(v), i, x, TRUE), TRUE)

\* EmplaceBack(args...), which is *Emplace(end(), args...), called directly or
\* as PushBack(value), which is EmplaceBack(value)
CallEmplaceBack(v) ==
    /\ Usable(v)
    /\ \E x \in Values, k \in Fail :
          Finish("EmplaceBack", v, v, vec[v].size, x,
                 Emplace(Machine(heap, k), Members(v), vec[v].size, x, TRUE), TRUE)

\* Erase(begin() + i)
CallErase(v) ==
    /\ Usable(v)
    /\ \E i \in 0..(vec[v].size - 1), k \in Fail :
          Finish("Erase", v, v, i, Default, Erase(Machine(heap, k), Members(v), i), TRUE)

\* PopBack()
CallPopBack(v) ==
    /\ Usable(v)
    /\ Finish("PopBack", v, v, 0, Default, PopBack(Machine(heap, 0), Members(v)), TRUE)

\* Reserve(n)
CallReserve(v) ==
    /\ Usable(v)
    /\ \E n \in 0..MaxCap, k \in Fail :
          Finish("Reserve", v, v, n, Default, Reserve(Machine(heap, k), Members(v), n), TRUE)

\* Resize(n)
CallResize(v) ==
    /\ Usable(v)
    /\ \E n \in 0..MaxCap, k \in Fail :
          Finish("Resize", v, v, n, Default, Resize(Machine(heap, k), Members(v), n), TRUE)

\* the caller goes on: the record of the call that ended is dropped
Continue ==
    /\ ~Idle
    /\ last' = NoCall
    /\ UNCHANGED <<T, vec, heap, raw, relocated>>

Next ==
    \/ \E v \in Vectors : CallVector(v)
    \/ \E v \in Vectors : CallVectorSized(v)
    \/ \E v, w \in Vectors : CallVectorCopy(v, w)
    \/ \E v, w \in Vectors : CallVectorMove(v, w)
    \/ \E v, w \in Vectors : CallCopyAssign(v, w)
    \/ \E v, w \in Vectors : CallMoveAssign(v, w)
    \/ \E v, w \in Vectors : CallSwap(v, w)
    \/ \E v \in Vectors : CallDestroy(v)
    \/ \E v \in Vectors : CallEmplace(v)
    \/ \E v \in Vectors : CallEmplaceBack(v)
    \/ \E v \in Vectors : CallErase(v)
    \/ \E v \in Vectors : CallPopBack(v)
    \/ \E v \in Vectors : CallReserve(v)
    \/ \E v \in Vectors : CallResize(v)
    \/ Continue

Spec == Init /\ [][Next]_vars

\* ------------------------------------------------------- a run of appends
\* one more PushBack(value) / EmplaceBack(args...) on A, none throwing; the
\* elements it carried to a new block are added to `relocated`
CallPushBack ==
    /\ vec["A"].size < MaxAppend
    /\ \E x \in Values :
          LET r == Emplace(Machine(heap, 0), Members("A"), vec["A"].size, x, TRUE)
          IN  /\ vec' = [vec EXCEPT !["A"] = Object(TRUE, r.v)]
              /\ heap' = r.m.heap
              /\ last' = Call("EmplaceBack", "A", "A", vec["A"].size, x, r.m, r.ret)
              /\ relocated' = relocated + r.m.carried
              /\ UNCHANGED <<T, raw>>

NextAppend == CallPushBack

\* Vector<T> A; followed by appends only
SpecAppend == Init /\ [][NextAppend]_vars

\* ------------------------------------------------ RawMemory on its own
\* the members of the RawMemory object r
RawMembers(r) == [buffer |-> raw[r].buffer, capacity |-> raw[r].capacity]

RawUsable(r) == Idle /\ raw[r].alive

RawAbsent(r) == Idle /\ ~raw[r].alive

\* the record of a call on RawMemory objects: what they held when it was made
RawCall(op, d, s, m) ==
    [NoCall EXCEPT !.op = op, !.v = d, !.w = s, !.thrown = m.thrown, !.err = m.err,
                   !.pre = raw]

\* the call op left d as rd (alive or not) and s as rs
RawFinish(op, d, s, m, alive, rd, rs) ==
    /\ raw' = IF d = s THEN [raw EXCEPT ![d] = RawObject(alive, rd)]
              ELSE [raw EXCEPT ![d] = RawObject(alive, rd), ![s] = RawObject(TRUE, rs)]
    /\ heap' = m.heap
    /\ last' = RawCall(op, d, s, m)
    /\ UNCHANGED <<T, vec, relocated>>

\* no Vector, no RawMemory
InitRaw ==
    /\ T \in Types
    /\ vec = [v \in Vectors |-> NoObject]
    /\ heap = EmptyHeap
    /\ last = NoCall
    /\ raw = [r \in RawObjects |-> NoRawObject]
    /\ relocated = 0

\* RawMemory() = default
CallRawMemory(r) ==
    /\ RawAbsent(r)
    /\ RawFinish("RawMemory", r, r, Machine(heap, 0), TRUE, EmptyRawMemory, EmptyRawMemory)

\* RawMemory(size_t capacity); operator new may throw
CallRawMemorySized(r) ==
    /\ RawAbsent(r)
    /\ \E n \in 0..MaxCap, k \in 0..1 :
          LET c == RawMemoryCtor(Machine(heap, k), n)
          IN  RawFinish("RawMemorySized", r, r, c.m, ~c.m.thrown,
                        IF c.m.thrown THEN EmptyRawMemory ELSE c.rm, EmptyRawMemory)

\* RawMemory(RawMemory&& other) noexcept
CallRawMemoryMove(d, s) ==
    /\ RawAbsent(d) /\ RawUsable(s)
    /\ LET r == RawMemoryMove(RawMembers(s))
       IN  RawFinish("RawMemoryMove", d, s, Machine(heap, 0), TRUE, r[1], r[2])

\* operator=(RawMemory&& rhs) noexcept: if (this != &rhs) { ... }
CallRawMemoryMoveAssign(d, s) ==
    /\ RawUsable(d) /\ RawUsable(s)
    /\ \E releases \in BOOLEAN :
          LET r == IF d # s
                   THEN RawMemoryMoveAssign(Machine(heap, 0), RawMembers(d), RawMembers(s),
                                            releases)
                   ELSE [m |-> Machine(heap, 0), this |-> RawMembers(d), rhs |-> RawMembers(s)]
          IN  RawFinish("RawMemoryMoveAssign", d, s, r.m, TRUE, r.this, r.rhs)

\* RawMemory::Swap(RawMemory& other) noexcept
CallRawMemorySwap(d, s) ==
    /\ RawUsable(d) /\ RawUsable(s)
    /\ LET r == RawMemorySwap(RawMembers(d), RawMembers(s))
       IN  RawFinish("RawMemorySwap", d, s, Machine(heap, 0), TRUE, r[1], r[2])

\* ~RawMemory()
CallRawMemoryDestroy(r) ==
    /\ RawUsable(r)
    /\ RawFinish("RawMemoryDestroy", r, r, RawMemoryDtor(Machine(heap, 0), RawMembers(r)),
                 FALSE, EmptyRawMemory, EmptyRawMemory)

NextRaw ==
    \/ \E r \in RawObjects : CallRawMemory(r)
    \/ \E r \in RawObjects : CallRawMemorySized(r)
    \/ \E d, s \in RawObjects : CallRawMemoryMove(d, s)
    \/ \E d, s \in RawObjects : CallRawMemoryMoveAssign(d, s)
    \/ \E d, s \in RawObjects : CallRawMemorySwap(d, s)
    \/ \E r \in RawObjects : CallRawMemoryDestroy(r)
    \/ Continue

SpecRaw == InitRaw /\ [][NextRaw]_vars

\* ---------------------------------------------------------------- the claims
\* the vector the last call was made on, as it is now and as it was at the call
Cur(v) == ViewOf(vec[v], heap)

Pre(v) == last.pre[v]

Returned(ops) == last.op \in ops /\ ~last.thrown

Threw(ops) == last.op \in ops /\ last.thrown

\* s without its element at index i (counted from 0)
Without(s, i) == SubSeq(s, 1, i) \o SubSeq(s, i + 2, Len(s))

\* s with x put in at index i (counted from 0)
With(s, i, x) == SubSeq(s, 1, i) \o <<x>> \o SubSeq(s, i + 1, Len(s))

\* C1: after every operation, also one that ended by propagating an
\* exception, every slot in [0, size) of every vector holds a live object
\* and every slot in [size, capacity) is uninitialized.
C1_SlotsLiveBelowSize ==
    \A v \in Vectors : vec[v].alive => Consistent(vec[v], heap)

\* the last call reallocated, or tried to: Reserve(n) with n > capacity, or an
\* Emplace (Insert, EmplaceBack, PushBack) called with size == capacity
Reallocating ==
    \/ last.op = "Reserve" /\ last.i > Pre(last.v).capacity
    \/ last.op \in EmplaceOps /\ Pre(last.v).size = Pre(last.v).capacity

\* T is move-only and its move constructor may throw: the one kind of type
\* that is relocated by a move that can fail
ThrowingMoveOnly == ~T.copyable /\ ~T.nothrowMove

\* C2 as claimed: if anything throws during the reallocation of Reserve or of
\* an Emplace at full capacity, the vector's size, capacity and every element
\* value are what they were before the call.
C2_ThrowingGrowthChangesNothing ==
    (last.thrown /\ Reallocating) =>
        /\ Cur(last.v).size = Pre(last.v).size
        /\ Cur(last.v).capacity = Pre(last.v).capacity
        /\ Cur(last.v).elems = Pre(last.v).elems

\* C2 as amended: after a throw during such a reallocation the size, the
\* capacity and the storage block are what they were, and so is every element
\* value unless T is move-only with a throwing move constructor, in which
\* case an element is either unchanged or left moved-from.
C2_ThrowingGrowthKeepsShape ==
    (last.thrown /\ Reallocating) =>
        /\ Cur(last.v).size = Pre(last.v).size
        /\ Cur(last.v).capacity = Pre(last.v).capacity
        /\ Cur(last.v).buffer = Pre(last.v).buffer
        /\ ~ThrowingMoveOnly => Cur(last.v).elems = Pre(last.v).elems
        /\ \A j \in 1..Pre(last.v).size :
              Cur(last.v).elems[j] \in {Pre(last.v).elems[j], Moved}

\* a reallocation of a vector of two or more elements, relocated by copy, threw
C2_Witness ==
    /\ last.thrown /\ Reallocating
    /\ ~UsesMove
    /\ Pre(last.v).size >= 2
    /\ \E j \in 1..2 : Pre(last.v).elems[j] # Moved

\* C3: an Emplace or Insert at begin() + i (PushBack and EmplaceBack: i = size)
\* that returns leaves s[0..i) ++ [new element] ++ s[i..size), a size one
\* larger, and returns begin() + i of the current storage, whatever the path
\* and whatever T's move leaves in its source.
C3_EmplacePutsElementAtIndex ==
    Returned(EmplaceOps) =>
        /\ Cur(last.v).elems = With(Pre(last.v).elems, last.i, last.x)
        /\ Cur(last.v).size = Pre(last.v).size + 1
        /\ last.ret = Iter(Cur(last.v).buffer, last.i)

C5_SizeWithinCapacity ==
    \A v \in Vectors :
        vec[v].alive => 0 <= vec[v].size /\ vec[v].size <= vec[v].data.capacity

\* an operation on a vector with elements has just propagated an exception
C5_Witness ==
    /\ last.thrown
    /\ vec[last.v].alive
    /\ vec[last.v].size >= 2
    /\ vec[last.v].size < vec[last.v].data.capacity

\* the calls that are claimed never to shrink the capacity of their vector
KeepCapacityOps == EmplaceOps \cup {"Reserve", "Resize", "Erase", "PopBack", "CopyAssign"}

\* the calls that exchange the storage of their two vectors
ExchangeOps == {"VectorMove", "MoveAssign", "Swap"}

\* C6: across Reserve, Resize, PushBack, EmplaceBack, Emplace, Insert, Erase,
\* PopBack and copy assignment, returning or throwing, the capacity of the
\* vector never decreases; the capacity of a vector that stays alive
\* decreases only in a move or Swap it takes part in.
C6_CapacityNeverShrinks ==
    /\ last.op \in KeepCapacityOps => Cur(last.v).capacity >= Pre(last.v).capacity
    /\ \A u \in Vectors :
          (Pre(u).alive /\ vec[u].alive /\ Cur(u).capacity < Pre(u).capacity)
              => last.op \in ExchangeOps /\ u \in {last.v, last.w}

\* a Resize grew the capacity of a vector with elements and then threw
C6_Witness ==
    /\ Threw({"Resize"})
    /\ Pre(last.v).size >= 1
    /\ Cur(last.v).capacity > Pre(last.v).capacity

\* C7: an Erase at begin() + i, 0 <= i < size, that returns leaves
\* s[0..i) ++ s[i+1..size), a size one smaller, the same capacity, the old
\* last slot uninitialized, and returns begin() + i, which is end() when the
\* last element was removed.
C7_EraseRemovesElementAtIndex ==
    Returned({"Erase"}) =>
        /\ Cur(last.v).elems = Without(Pre(last.v).elems, last.i)
        /\ Cur(last.v).size = Pre(last.v).size - 1
        /\ Cur(last.v).capacity = Pre(last.v).capacity
        /\ Cur(last.v).buffer = Pre(last.v).buffer
        /\ SlotsAt(heap, Cur(last.v).buffer)[Pre(last.v).size] = Uninit
        /\ last.ret = Iter(Cur(last.v).buffer, last.i)
        /\ last.i = Pre(last.v).size - 1 => last.ret.off = Cur(last.v).size

\* an Erase in the middle of three or more elements, the neighbours distinct
C7_Witness ==
    /\ Returned({"Erase"})
    /\ Pre(last.v).size >= 3
    /\ last.i = 1
    /\ Pre(last.v).elems[1] # Pre(last.v).elems[2]
    /\ Pre(last.v).elems[2] # Pre(last.v).elems[3]

\* the last call neither ran on u nor exchanged u's storage
Untouched(u) == u # last.v /\ ~(u = last.w /\ last.op \in ExchangeOps)

\* C8: two vectors never own the same storage block, a copy (construction or
\* assignment) included, and a call on one vector leaves the size, capacity,
\* storage and element values of the other as they were.
C8_CopiesAreIndependent ==
    /\ \A u, v \in Vectors :
          (u # v /\ vec[u].alive /\ vec[v].alive /\ vec[u].data.buffer = vec[v].data.buffer)
              => vec[u].data.buffer = nullptr
    /\ ~Idle => \A u \in Vectors : Untouched(u) => Cur(u) = Pre(u)

\* a vector that held the same elements as the other one was changed by a
\* call, and the other one still holds them
C8_Witness ==
    /\ Returned({"Emplace", "Erase", "Resize", "PopBack"})
    /\ \E u \in Vectors :
          /\ u # last.v /\ vec[u].alive
          /\ Cur(u).size >= 1
          /\ Cur(u).elems = Pre(last.v).elems
          /\ Cur(u).elems # Cur(last.v).elems

\* C9: a copy assignment dst = src that returns leaves dst with src's size and
\* elements and src unchanged; dst's capacity becomes src.size when
\* src.size > dst.capacity and is unchanged (with dst's storage) otherwise;
\* when src.size < dst.size the slots [src.size, old dst.size) are destroyed;
\* self-assignment changes nothing.
C9_CopyAssignCopies ==
    Returned({"CopyAssign"}) =>
        LET d == Pre(last.v)
            s == Pre(last.w)
            c == Cur(last.v)
        IN  /\ c.size = s.size
            /\ c.elems = s.elems
            /\ Cur(last.w) = s
            /\ last.v = last.w => c = d
            /\ s.size > d.capacity => c.capacity = s.size
            /\ s.size <= d.capacity => c.capacity = d.capacity /\ c.buffer = d.buffer
            /\ s.size < d.size =>
                  \A j \in (s.size + 1)..d.size : SlotsAt(heap, c.buffer)[j] = Uninit

\* a copy assignment of a non-empty vector to a longer one
C9_Witness ==
    /\ Returned({"CopyAssign"})
    /\ last.v # last.w
    /\ Pre(last.w).size >= 1
    /\ Pre(last.w).size < Pre(last.v).size
    /\ Pre(last.w).elems # SubSeq(Pre(last.v).elems, 1, Pre(last.w).size)

\* C10: when dst = src with src.size > dst.capacity throws (an element copy or
\* the allocation), dst's size, capacity, storage block and elements are what
\* they were before the call, and so is src.
C10_ThrowingCopyAssignChangesNothing ==
    (Threw({"CopyAssign"}) /\ Pre(last.w).size > Pre(last.v).capacity) =>
        /\ Cur(last.v) = Pre(last.v)
        /\ Cur(last.w) = Pre(last.w)
        /\ Consistent(vec[last.v], heap)

\* such a copy assignment to a vector that holds elements threw
C10_Witness ==
    /\ Threw({"CopyAssign"})
    /\ Pre(last.w).size > Pre(last.v).capacity
    /\ Pre(last.v).size >= 1

Max(a, b) == IF a >= b THEN a ELSE b

\* C11: Reserve(n) with n <= capacity changes nothing; Reserve(n) with
\* n > capacity that returns makes the capacity exactly n, keeps the size and
\* the elements, and releases the old block with no live element in it.
C11_ReserveGrowsToExactly ==
    last.op = "Reserve" =>
        LET p == Pre(last.v)
            c == Cur(last.v)
        IN  /\ last.i <= p.capacity =>
                  ~last.thrown /\ c = p /\ Consistent(vec[last.v], heap)
            /\ (last.i > p.capacity /\ ~last.thrown) =>
                  /\ c.capacity = last.i
                  /\ c.size = p.size
                  /\ c.elems = p.elems
                  /\ c.buffer # p.buffer
                  /\ last.err = {}

\* a Reserve moved two or more elements, not all alike, of a type whose move
\* empties its source, to a larger block
C11_Witness ==
    /\ Returned({"Reserve"})
    /\ last.i > Pre(last.v).capacity
    /\ Pre(last.v).size >= 2
    /\ Pre(last.v).elems[1] # Pre(last.v).elems[2]
    /\ ~T.moveIsCopy /\ UsesMove

\* C12: a Resize(count) that returns sets size to count; growing keeps the old
\* elements, value-initializes [old size, count) and makes the capacity
\* max(old capacity, count); shrinking keeps [0, count), leaves
\* [count, old size) uninitialized and keeps the capacity.
C12_ResizeSetsSize ==
    Returned({"Resize"}) =>
        LET p == Pre(last.v)
            c == Cur(last.v)
            n == last.i
        IN  /\ c.size = n
            /\ n > p.size =>
                  /\ \A j \in 1..p.size : c.elems[j] = p.elems[j]
                  /\ \A j \in (p.size + 1)..n : c.elems[j] = Default
                  /\ c.capacity = Max(p.capacity, n)
            /\ n <= p.size =>
                  /\ \A j \in 1..n : c.elems[j] = p.elems[j]
                  /\ \A j \in (n + 1)..p.size : SlotsAt(heap, c.buffer)[j] = Uninit
                  /\ c.capacity = p.capacity
                  /\ c.buffer = p.buffer

\* a Resize grew a vector beyond its capacity, its first element not a default one
C12_Witness ==
    /\ Returned({"Resize"})
    /\ Pre(last.v).size >= 1
    /\ last.i > Pre(last.v).capacity
    /\ Pre(last.v).elems[1] # Default

\* C13: an Emplace (Insert, PushBack, EmplaceBack) called with size == capacity
\* that returns leaves the capacity max(1, 2 * old size); one called with
\* size < capacity leaves capacity and storage block as they were.
C13_GrowthDoubles ==
    last.op \in EmplaceOps =>
        LET p == Pre(last.v)
            c == Cur(last.v)
        IN  /\ (p.size = p.capacity /\ ~last.thrown) =>
                  c.capacity = Max(1, 2 * p.size) /\ c.buffer # p.buffer
            /\ p.size < p.capacity => c.capacity = p.capacity /\ c.buffer = p.buffer

\* an Emplace on a full vector of two elements returned
C13_Witness ==
    /\ Returned(EmplaceOps)
    /\ Pre(last.v).size = 2
    /\ Pre(last.v).capacity = 2

\* C16: no call releases a block in which an element still lives, and no call
\* destroys a slot that holds no element.
C16_ElementsDestroyedOnce ==
    last.err \cap {"free_live", "destroy_uninit"} = {}

\* C18: when the move_backward of an in-place Emplace throws, the exception
\* propagates, the size is what it was, slot size (move-constructed at the
\* start) is uninitialized again, and capacity and block are unchanged.
C18_ThrowingShiftRestoresTail ==
    (last.op \in EmplaceOps /\ last.site = "move_backward") =>
        LET p == Pre(last.v)
            c == Cur(last.v)
        IN  /\ last.thrown
            /\ 0 < p.size /\ p.size < p.capacity
            /\ c.size = p.size
            /\ c.capacity = p.capacity
            /\ c.buffer = p.buffer
            /\ SlotsAt(heap, c.buffer)[p.size + 1] = Uninit

\* the shift of two or more elements threw
C18_Witness ==
    /\ last.op \in EmplaceOps /\ last.site = "move_backward"
    /\ Pre(last.v).size >= 2
    /\ last.i = 0

\* C19: PopBack on an empty vector changes nothing and destroys nothing;
\* PopBack on a vector with elements destroys the last one, lowers the size by
\* one and leaves the capacity, the block and the other elements as they were.
C19_PopBackRemovesLast ==
    last.op = "PopBack" =>
        LET p == Pre(last.v)
            c == Cur(last.v)
        IN  /\ ~last.thrown /\ last.err = {}
            /\ c.capacity = p.capacity /\ c.buffer = p.buffer
            /\ Consistent(vec[last.v], heap)
            /\ p.size = 0 => c = p
            /\ p.size > 0 =>
                  /\ c.size = p.size - 1
                  /\ c.elems = SubSeq(p.elems, 1, p.size - 1)

\* a PopBack on a vector of two or more elements, the last two distinct
C19_Witness ==
    /\ Returned({"PopBack"})
    /\ Pre(last.v).size >= 2
    /\ Pre(last.v).elems[Pre(last.v).size] # Pre(last.v).elems[Pre(last.v).size - 1]

RECURSIVE PowerOfTwoFrom(_, _)
\* the smallest power of two that is >= n, searched from the power of two p
PowerOfTwoFrom(p, n) == IF p >= n THEN p ELSE PowerOfTwoFrom(2 * p, n)

IsPowerOfTwo(n) == n >= 1 /\ PowerOfTwoFrom(1, n) = n

\* C14: after N appends to an empty vector the capacity is the smallest power
\* of two >= N and fewer than 2 * N elements were relocated in all; an append
\* reallocates only when the size before it is 0 or a power of two.
C14_AppendsRelocateLinearly ==
    LET n == vec["A"].size
        c == Cur("A")
        p == Pre("A")
    IN  /\ n = 0 => c.capacity = 0 /\ relocated = 0
        /\ n >= 1 => c.capacity = PowerOfTwoFrom(1, n) /\ relocated < 2 * n
        /\ (last.op = "EmplaceBack" /\ (c.buffer # p.buffer \/ c.capacity # p.capacity))
              => p.size = 0 \/ IsPowerOfTwo(p.size)

\* nine appends were made, the last of them into a new block
C14_Witness ==
    /\ vec["A"].size = 9
    /\ Cur("A").capacity = 16
    /\ relocated = 15

\* C15: after a RawMemory move construction or move assignment dst = move(src),
\* dst and src distinct, dst holds the address and capacity src held and src
\* has a null buffer and capacity 0, whatever dst held.
C15_RawMoveLeavesSourceEmpty ==
    (last.op \in {"RawMemoryMove", "RawMemoryMoveAssign"} /\ last.v # last.w) =>
        /\ raw[last.v].buffer = last.pre[last.w].buffer
        /\ raw[last.v].capacity = last.pre[last.w].capacity
        /\ raw[last.w].buffer = nullptr
        /\ raw[last.w].capacity = 0

\* C17: in every RawMemory object, capacity is 0 exactly when the buffer is null.
C17_CapacityZeroIffNull ==
    \A r \in RawObjects :
        raw[r].alive => ((raw[r].capacity = 0) <=> (raw[r].buffer = nullptr))

\* the living objects, Vector or RawMemory, that hold the address a
Owners(a) ==
    {v \in Vectors : vec[v].alive /\ vec[v].data.buffer = a}
        \cup {r \in RawObjects : raw[r].alive /\ raw[r].buffer = a}

====
